---- MODULE Spec2Model ----
(***************************************************************************)
(* Model of the AI query pipeline of VibeCoding_BaseballAnalysis:          *)
(*   src/src/ai_query_handler.py  (AIQueryHandler)                         *)
(*   src/utils/ai_code_cache.py   (AICodeCache)                            *)
(* One engine instance handles requests one after the other.  A request is *)
(* a call of handle_query_with_retry; each step of the call is one action. *)
(* Strings that the code inspects are modelled as sequences: questions and *)
(* cache keys as sequences of characters, error messages as sequences of   *)
(* words, so that lower(), replace(), split() and the substring tests are  *)
(* computed rather than assumed.  Under Spec the files of the cache        *)
(* directory can always be opened, read and written; the operators of the  *)
(* cache take the outcome of the file operations as a parameter.           *)
(***************************************************************************)
EXTENDS Integers, Sequences, FiniteSets, TLC

\* ---------------------------------------------------------------- bounds
\* Days on the model's clock (datetime.now() is read in whole days).
MaxTime == 3
\* Number of handle_query_with_retry calls in one behaviour.
MaxRequests == 2

\* Number of edits that derive a variant of a question, and the length up to
\* which a question is edited.
MaxEdits == 2
MaxLen == 12

\* Number of get / set calls each concurrent caller makes.
MaxProcCalls == 2

\* Hits of one entry up to which get is called on it.
MaxHits == 1

\* AI_CACHE_TTL_DAYS as configured for the engine (the code's default is 30).
TtlDays == 2

\* ---------------------------------------------------------------- strings
\* str.lower() on one character.
LowerChar(c) ==
  CASE c = "A" -> "a" [] c = "B" -> "b" [] c = "C" -> "c" [] c = "D" -> "d"
    [] c = "E" -> "e" [] c = "F" -> "f" [] c = "G" -> "g" [] c = "H" -> "h"
    [] c = "I" -> "i" [] c = "J" -> "j" [] c = "K" -> "k" [] c = "L" -> "l"
    [] c = "M" -> "m" [] c = "N" -> "n" [] c = "O" -> "o" [] c = "P" -> "p"
    [] c = "Q" -> "q" [] c = "R" -> "r" [] c = "S" -> "s" [] c = "T" -> "t"
    [] c = "U" -> "u" [] c = "V" -> "v" [] c = "W" -> "w" [] c = "X" -> "x"
    [] c = "Y" -> "y" [] c = "Z" -> "z"
    [] OTHER -> c

Lower(s) == [i \in DOMAIN s |-> LowerChar(s[i])]

IsSpace(c) == c \in {" ", "\t", "\n"}

RECURSIVE LStrip(_)
LStrip(s) == IF s # <<>> /\ IsSpace(Head(s)) THEN LStrip(Tail(s)) ELSE s

RECURSIVE RStrip(_)
RStrip(s) ==
  IF s # <<>> /\ IsSpace(s[Len(s)]) THEN RStrip(SubSeq(s, 1, Len(s) - 1)) ELSE s

\* str.strip()
Strip(s) == RStrip(LStrip(s))

\* The characters removed by the loop `for char in "?!.,;:"`.
PunctuationChars == {"?", "!", ".", ",", ";", ":"}

\* normalized.replace(char, "") for every char of "?!.,;:".
RemovePunctuation(s) == SelectSeq(s, LAMBDA c : c \notin PunctuationChars)

\* str.split(): maximal runs of non-whitespace characters.
RECURSIVE SplitAcc(_, _, _)
SplitAcc(s, cur, acc) ==
  IF s = <<>>
    THEN IF cur = <<>> THEN acc ELSE Append(acc, cur)
    ELSE IF IsSpace(Head(s))
           THEN SplitAcc(Tail(s), <<>>, IF cur = <<>> THEN acc ELSE Append(acc, cur))
           ELSE SplitAcc(Tail(s), Append(cur, Head(s)), acc)

Split(s) == SplitAcc(s, <<>>, <<>>)

\* " ".join(words)
RECURSIVE Join(_)
Join(ws) ==
  IF ws = <<>> THEN <<>>
  ELSE IF Len(ws) = 1 THEN ws[1]
  ELSE ws[1] \o <<" ">> \o Join(Tail(ws))

\* The `replacements` dictionary of _normalize_question: <<word, expansion>>.
Replacements ==
  {
       <<<<"h","r">>,
         <<"h","o","m","e"," ","r","u","n","s">>>>,
       <<<<"h","r","s">>,
         <<"h","o","m","e"," ","r","u","n","s">>>>,
       <<<<"r","b","i">>,
         <<"r","u","n","s"," ","b","a","t","t","e","d"," ","i","n">>>>,
       <<<<"r","b","i","s">>,
         <<"r","u","n","s"," ","b","a","t","t","e","d"," ","i","n">>>>,
       <<<<"a","v","g">>,
         <<"b","a","t","t","i","n","g"," ","a","v","e","r","a","g","e">>>>,
       <<<<"b","a">>,
         <<"b","a","t","t","i","n","g"," ","a","v","e","r","a","g","e">>>>,
       <<<<"o","b","p">>,
         <<"o","n"," ","b","a","s","e"," ","p","e","r","c","e","n","t","a","g","e">>>>,
       <<<<"o","p","s">>,
         <<"o","n"," ","b","a","s","e"," ","p","l","u","s"," ","s","l","u","g","g","i","n","g">>>>,
       <<<<"s","l","g">>,
         <<"s","l","u","g","g","i","n","g"," ","p","e","r","c","e","n","t","a","g","e">>>>,
       <<<<"e","r","a">>,
         <<"e","a","r","n","e","d"," ","r","u","n"," ","a","v","e","r","a","g","e">>>>,
       <<<<"w","h","i","p">>,
         <<"w","a","l","k","s"," ","h","i","t","s"," ","p","e","r"," ","i","n","n","i","n","g"," ","p","i","t","c","h","e","d">>>>,
       <<<<"v","s">>,
         <<"v","e","r","s","u","s">>>>,
       <<<<"v">>,
         <<"v","e","r","s","u","s">>>>,
       <<<<"c","o","m","p","a","r","e">>,
         <<"v","e","r","s","u","s">>>>,
       <<<<"c","o","m","p","a","r","i","s","o","n">>,
         <<"v","e","r","s","u","s">>>>,
       <<<<"h","o","m","e","r","s">>,
         <<"h","o","m","e"," ","r","u","n","s">>>>,
       <<<<"d","i","n","g","e","r","s">>,
         <<"h","o","m","e"," ","r","u","n","s">>>>,
       <<<<"s","t","r","i","k","e","o","u","t","s">>,
         <<"s","t","r","i","k","e","o","u","t","s">>>>,
       <<<<"k","s">>,
         <<"s","t","r","i","k","e","o","u","t","s">>>>,
       <<<<"w","a","l","k","s">>,
         <<"w","a","l","k","s">>>>,
       <<<<"b","b","s">>,
         <<"w","a","l","k","s">>>>
  }

\* replacements.get(w, w)
ReplaceWord(w) ==
  IF \E p \in Replacements : p[1] = w
    THEN (CHOOSE p \in Replacements : p[1] = w)[2]
    ELSE w

DigitChar(d) ==
  CASE d = 0 -> "0" [] d = 1 -> "1" [] d = 2 -> "2" [] d = 3 -> "3"
    [] d = 4 -> "4" [] d = 5 -> "5" [] d = 6 -> "6" [] d = 7 -> "7"
    [] d = 8 -> "8" [] d = 9 -> "9"

\* str(season) for a non-negative season.
RECURSIVE IntToStr(_)
IntToStr(n) ==
  IF n < 10 THEN <<DigitChar(n)>>
  ELSE Append(IntToStr(n \div 10), DigitChar(n % 10))

\* _normalize_question without the season appended.
NormalizeQuestion_NoSeason(question, season) ==
  LET normalized == RemovePunctuation(Strip(Lower(question)))
      words == Split(normalized)
      normalized_words == [i \in DOMAIN words |-> ReplaceWord(words[i])]
  IN  Join(normalized_words)

\* _normalize_question without the call of lower().
NormalizeQuestion_NoLower(question, season) ==
  LET normalized == RemovePunctuation(Strip(question))
      words == Split(normalized)
      normalized_words == [i \in DOMAIN words |-> ReplaceWord(words[i])]
  IN  Join(normalized_words) \o <<" ">> \o IntToStr(season)

\* AICodeCache._normalize_question
NormalizeQuestion(question, season) ==
  LET normalized == RemovePunctuation(Strip(Lower(question)))
      words == Split(normalized)
      normalized_words == [i \in DOMAIN words |-> ReplaceWord(words[i])]
  IN  Join(normalized_words) \o <<" ">> \o IntToStr(season)

\* AICodeCache._generate_cache_key.  The MD5 digest of the normalized string
\* is represented by the normalized string itself: two questions have the
\* same key iff they have the same normalized string (no digest collision).
GenerateCacheKey(question, season) == NormalizeQuestion(question, season)

\* ---------------------------------------------------------------- messages
\* An error message is a sequence of words; `x in msg` is the test that the
\* words of x occur consecutively in msg.
LowerWord(w) ==
  CASE w = "AI" -> "ai" [] w = "Unauthorized" -> "unauthorized"
    [] w = "Safety" -> "safety" [] w = "Check" -> "check"
    [] w = "Generated" -> "generated" [] w = "Code" -> "code"
    [] w = "Dangerous" -> "dangerous" [] w = "Syntax" -> "syntax"
    [] w = "SyntaxError" -> "syntaxerror"
    [] w = "RecursionError" -> "recursionerror"
    [] OTHER -> w

\* error_msg.lower()
LowerMsg(m) == [i \in DOMAIN m |-> LowerWord(m[i])]

\* needle in msg
Contains(needle, m) ==
  \E i \in 1..(Len(m) - Len(needle) + 1) :
     SubSeq(m, i, i + Len(needle) - 1) = needle

\* ---------------------------------------------------------------- candidates
\* dangerous_patterns of _validate_code_safety, in the order of the list.
DangerousPatterns ==
  << "\\beval\\s*\\(", "\\bexec\\s*\\(", "\\b__import__\\s*\\(",
     "\\bcompile\\s*\\(", "\\bopen\\s*\\(", "\\bfile\\s*\\(",
     "\\binput\\s*\\(", "\\bos\\.system", "\\bos\\.popen", "\\bsubprocess",
     "\\bshutil", "\\brmdir", "\\bunlink", "\\bremove", "import\\s+os",
     "import\\s+sys", "import\\s+subprocess", "import\\s+shutil",
     "from\\s+os", "from\\s+sys", "__" >>

\* allowed_imports of _validate_code_safety.
AllowedImports == {"pandas", "numpy", "json", "datetime", "re"}

\* A code text is described by what the validator and the interpreter see in
\* it: the indices of the dangerous patterns that re.search finds, the module
\* names that re.findall(import_pattern) returns (in order), and what
\* compile() does with it ("ok", "SyntaxError", or "RecursionError" for an
\* expression nested too deeply for the compiler).
MkCode(text, matches, imports, comp) ==
  [text |-> text, matches |-> matches, imports |-> imports, compile |-> comp]

\* The empty string returned by a failed generation.
EmptyCode == MkCode("", {}, <<>>, "ok")

SafeA == MkCode("safeA", {}, <<"pandas">>, "ok")
SafeB == MkCode("safeB", {}, <<>>, "ok")
OpenFile == MkCode("openFile", {5}, <<>>, "ok")
ImportSocket == MkCode("importSocket", {}, <<"pandas", "socket">>, "ok")
BadSyntax == MkCode("badSyntax", {}, <<>>, "SyntaxError")
DeepNest == MkCode("deepNest", {}, <<>>, "RecursionError")

\* The code texts a provider may answer with.
Candidates == {SafeA, SafeB, OpenFile, ImportSocket, BadSyntax, DeepNest}

\* What _generate_code / _generate_code_with_feedback may return: a candidate,
\* or "" when the provider call raised or the response was empty.
GeneratorOutputs == Candidates \cup {EmptyCode}

Min(S) == CHOOSE x \in S : \A y \in S : x <= y

\* _validate_code_safety with the import check placed before the pattern loop.
ValidateCodeSafety_ImportsFirst(code) ==
  LET bad == {i \in DOMAIN code.imports : code.imports[i] \notin AllowedImports}
  IN  IF bad # {}
        THEN [outcome |-> "unsafe",
              message |-> <<"Unauthorized", "import", ":", code.imports[Min(bad)]>>]
      ELSE IF code.matches # {}
        THEN [outcome |-> "unsafe",
              message |-> <<"Dangerous", "pattern", "detected", ":",
                            DangerousPatterns[Min(code.matches)]>>]
      ELSE IF code.compile = "SyntaxError"
        THEN [outcome |-> "unsafe",
              message |-> <<"Syntax", "error", ":", "invalid", "syntax">>]
      ELSE IF code.compile = "RecursionError"
        THEN [outcome |-> "raise",
              message |-> <<"maximum", "recursion", "depth", "exceeded">>]
      ELSE [outcome |-> "safe",
            message |-> <<"Code", "passed", "safety", "checks">>]

\* AIQueryHandler._validate_code_safety.  outcome "safe" / "unsafe" is the
\* returned (is_safe, message); outcome "raise" is an exception of compile()
\* that is not a SyntaxError and so leaves the method.
ValidateCodeSafety(code) ==
  LET bad == {i \in DOMAIN code.imports : code.imports[i] \notin AllowedImports}
  IN  IF code.matches # {}
        THEN [outcome |-> "unsafe",
              message |-> <<"Dangerous", "pattern", "detected", ":",
                            DangerousPatterns[Min(code.matches)]>>]
      ELSE IF bad # {}
        THEN [outcome |-> "unsafe",
              message |-> <<"Unauthorized", "import", ":", code.imports[Min(bad)]>>]
      ELSE IF code.compile = "SyntaxError"
        THEN [outcome |-> "unsafe",
              message |-> <<"Syntax", "error", ":", "invalid", "syntax">>]
      ELSE IF code.compile = "RecursionError"
        THEN [outcome |-> "raise",
              message |-> <<"maximum", "recursion", "depth", "exceeded">>]
      ELSE [outcome |-> "safe",
            message |-> <<"Code", "passed", "safety", "checks">>]

\* ---------------------------------------------------------------- results
\* The result dictionary, reduced to the keys the handler reads or sets.
\* error = <<>> stands for a missing 'error' key, cached = "unset" for a
\* missing 'cached' key, generated_code = "none" for a missing key.
MkResult(success, error, generated_code) ==
  [success |-> success, error |-> error, cached |-> "unset",
   retry_attempted |-> FALSE, retry_succeeded |-> FALSE,
   generated_code |-> generated_code]

NoResult == MkResult(FALSE, <<>>, "none")

\* A value of result['error'] that is not a str (None, an exception object).
NonStringError == <<"<not a str>">>

\* Texts of str(e) of an exception raised by a candidate, or of the error a
\* candidate reports itself in result['error'].
ErrorDetails ==
  { <<"list", "index", "out", "of", "range">>,
    <<"401", "Unauthorized">>,
    <<"Safety", "Check", "of", "input", "failed">>,
    <<"AI", "query", "handling", "failed">> }

\* What running a candidate can do: populate result with success and an
\* answer (ok), raise (raise), finish without assigning result (no_result),
\* assign a result that is not a dictionary (not_dict), assign a dictionary
\* with a true 'success' and no 'answer' (no_answer), or report a failure
\* itself (own_failure).
ExecOutcomes ==
  {[kind |-> "ok", detail |-> <<>>],
   [kind |-> "no_answer", detail |-> <<>>],
   [kind |-> "no_result", detail |-> <<>>],
   [kind |-> "not_dict", detail |-> <<>>]}
  \cup {[kind |-> "raise", detail |-> d] : d \in ErrorDetails}
  \cup {[kind |-> "own_failure", detail |-> d] : d \in ErrorDetails}

\* What a run of a code text was: a text that does not compile raises.
RunKind(code, outcome) == IF code.compile # "ok" THEN "raise" ELSE outcome.kind

\* AIQueryHandler._execute_code.  exec() of a text that does not compile
\* raises, whatever the outcome chosen for a run of it.
ExecuteCode(code, outcome) ==
  IF code.compile # "ok"
    THEN MkResult(FALSE, <<"Code", "execution", "failed", ":", code.compile>>,
                  code.text)
  ELSE CASE outcome.kind = "ok" -> MkResult(TRUE, <<>>, code.text)
         [] outcome.kind = "no_answer" -> MkResult(TRUE, <<>>, code.text)
         [] outcome.kind = "no_result" -> MkResult(FALSE, <<>>, code.text)
         [] outcome.kind = "not_dict" ->
              MkResult(FALSE, <<"Generated", "code", "did", "not", "produce",
                                "a", "result", "dictionary">>, code.text)
         [] outcome.kind = "raise" ->
              MkResult(FALSE, <<"Code", "execution", "failed", ":">> \o outcome.detail,
                       code.text)
         [] outcome.kind = "own_failure" ->
              MkResult(FALSE, outcome.detail, code.text)

\* ---------------------------------------------------------------- sandbox
\* restricted_globals of _execute_code: the names a candidate can use, and
\* the kind of object each is bound to.  pd and np are added when pandas and
\* numpy can be imported, which they are wherever the application runs.
MaxPath == 5

RestrictedGlobals ==
  [data_fetcher |-> "data_fetcher", data_processor |-> "data_processor",
   season |-> "int", question |-> "str", pd |-> "pandas", np |-> "numpy"]

\* The keys of restricted_globals['__builtins__'].
RestrictedBuiltins ==
  {"len", "str", "int", "float", "bool", "list", "dict", "tuple", "set",
   "range", "enumerate", "zip", "map", "filter", "sum", "min", "max", "abs",
   "round", "sorted", "any", "all", "next", "print", "Exception",
   "ValueError", "KeyError", "TypeError"}

\* Attributes of the exposed objects, as Python resolves them: pandas is the
\* real module, with its functions and its sub-modules, and pandas.io.common
\* holds the os module it imported.  Every object has __class__.
Attribute(obj, name) ==
  CASE name = "__class__" -> "type"
    [] obj = "pandas" /\ name = "read_csv" -> "pandas.read_csv"
    [] obj = "pandas" /\ name = "io" -> "pandas.io"
    [] obj = "pandas.io" /\ name = "common" -> "pandas.io.common"
    [] obj = "pandas.io.common" /\ name = "os" -> "os"
    [] obj = "os" /\ name = "system" -> "os.system"
    [] obj = "os" /\ name = "listdir" -> "os.listdir"
    [] obj = "os" /\ name = "open" -> "os.open"
    [] OTHER -> "AttributeError"

\* What calling (or holding) an object gives access to.
Authority(obj) ==
  CASE obj \in {"pandas.read_csv", "os.listdir", "os.open"} -> "filesystem"
    [] obj = "os.system" -> "process"
    [] obj = "type" -> "reflection"
    [] OTHER -> "none"

ForbiddenAuthority == {"filesystem", "process", "network", "reflection"}

\* The names a candidate expression n1.n2...nk(...) is written with.
SandboxNames ==
  {"pd", "question", "open", "io", "common", "os", "system", "listdir",
   "read_csv", "__class__"}

\* The candidate expressions: dotted paths of at most MaxPath names.
RECURSIVE PathsOfLen(_)
PathsOfLen(n) ==
  IF n = 0 THEN {<<>>}
  ELSE {Append(p, x) : p \in PathsOfLen(n - 1), x \in SandboxNames}

\* The indices of the dangerous patterns that re.search finds in the text
\* n1.n2...nk(...): a pattern \bname\s*\( matches the called name, \bos\.x
\* matches os followed by attribute x, a pattern \bname matches any name,
\* and __ matches a name with a double underscore.
CalledPatterns ==
  [eval |-> 1, exec |-> 2, __import__ |-> 3, compile |-> 4, open |-> 5,
   file |-> 6, input |-> 7]
NamePatterns ==
  [subprocess |-> 10, shutil |-> 11, rmdir |-> 12, unlink |-> 13, remove |-> 14]
DunderNames == {"__class__", "__import__"}

PathMatches(path) ==
  LET n == Len(path)
  IN  (IF path[n] \in DOMAIN CalledPatterns THEN {CalledPatterns[path[n]]} ELSE {})
      \cup (IF \E i \in 1..(n - 1) : path[i] = "os" /\ path[i + 1] = "system"
              THEN {8} ELSE {})
      \cup (IF \E i \in 1..(n - 1) : path[i] = "os" /\ path[i + 1] = "popen"
              THEN {9} ELSE {})
      \cup {NamePatterns[path[i]] : i \in {j \in 1..n : path[j] \in DOMAIN NamePatterns}}
      \cup (IF \E i \in 1..n : path[i] \in DunderNames THEN {21} ELSE {})

\* The code text of a candidate expression, as the validator sees it: it
\* imports nothing and compiles.
PathCode(path) == MkCode(path, PathMatches(path), <<>>, "ok")

\* exec() of the expression under restricted_globals: the first name is
\* looked up in the globals, then in __builtins__; each further name is an
\* attribute lookup.  The value is the object reached, or the error raised.
RECURSIVE Walk(_, _, _)
Walk(obj, path, i) ==
  IF i > Len(path) THEN obj
  ELSE LET next == Attribute(obj, path[i])
       IN  IF next = "AttributeError" THEN next ELSE Walk(next, path, i + 1)

RunPath(path) ==
  IF path[1] \in DOMAIN RestrictedGlobals
    THEN Walk(RestrictedGlobals[path[1]], path, 2)
  ELSE IF path[1] \in RestrictedBuiltins THEN Walk("builtin", path, 2)
  ELSE "NameError"

\* ---------------------------------------------------------------- cache
\* The questions asked, as (text, season) pairs.
Queries ==
  { [question |-> <<"j", "u", "d", "g", "e", " ", "h", "r">>, season |-> 2024],
    [question |-> <<" ", "J", "u", "d", "g", "e", " ", "H", "R", "?">>, season |-> 2024],
    [question |-> <<"j", "u", "d", "g", "e", " ", "h", "r">>, season |-> 2023] }

CacheKeys == {GenerateCacheKey(q.question, q.season) : q \in Queries}

\* A cache file: absent, present but unreadable (corrupt: it was
\* truncated by open(path, 'wb') and the dump did not complete), or holding
\* the pickled cache_data dictionary.
Absent == [state |-> "absent"]
Corrupt == [state |-> "corrupt"]
None == [state |-> "none"]

\* Outcomes of the file operations of get and set.
ReadOutcomes == {"ok", "read_error"}
WriteOutcomes == {"ok", "open_error", "dump_error"}
IoOutcomes == [read : ReadOutcomes, write : WriteOutcomes]

\* The file operations of a cache directory that works: every open, load and
\* dump succeeds.  Spec runs the engine on such a directory.
ReliableIo == {[read |-> "ok", write |-> "ok"]}

\* with open(cache_path, 'wb') as f: pickle.dump(cache_data, f)
WriteFile(st, key, cache_data, w) ==
  CASE w = "ok" -> [st EXCEPT ![key] = cache_data]
    [] w = "open_error" -> st
    [] w = "dump_error" -> [st EXCEPT ![key] = Corrupt]

\* AICodeCache.get with the line `cache_data['hits'] = ... + 1` left out.
CacheGet_NoBump(st, question, season, t, io) ==
  LET cache_key == GenerateCacheKey(question, season)
      f == st[cache_key]
  IN  IF f.state = "absent" THEN [ret |-> None, store |-> st]
      ELSE IF f.state = "corrupt" \/ io.read = "read_error"
        THEN [ret |-> None, store |-> st]
      ELSE IF t - f.timestamp < TtlDays
        THEN LET cache_data == [f EXCEPT !.last_used = t]
             IN  [ret |-> IF io.write = "ok" THEN cache_data ELSE None,
                  store |-> WriteFile(st, cache_key, cache_data, io.write)]
      ELSE [ret |-> None, store |-> [st EXCEPT ![cache_key] = Absent]]

\* AICodeCache.get with the expiration test written `<=` instead of `<`.
CacheGet_Leq(st, question, season, t, io) ==
  LET cache_key == GenerateCacheKey(question, season)
      f == st[cache_key]
  IN  IF f.state = "absent" THEN [ret |-> None, store |-> st]
      ELSE IF f.state = "corrupt" \/ io.read = "read_error"
        THEN [ret |-> None, store |-> st]
      ELSE IF t - f.timestamp <= TtlDays
        THEN LET cache_data == [f EXCEPT !.hits = f.hits + 1, !.last_used = t]
             IN  [ret |-> IF io.write = "ok" THEN cache_data ELSE None,
                  store |-> WriteFile(st, cache_key, cache_data, io.write)]
      ELSE [ret |-> None, store |-> [st EXCEPT ![cache_key] = Absent]]

\* AICodeCache.get with a hit also setting cache_data['timestamp'] to now.
CacheGet_Touch(st, question, season, t, io) ==
  LET cache_key == GenerateCacheKey(question, season)
      f == st[cache_key]
  IN  IF f.state = "absent" THEN [ret |-> None, store |-> st]
      ELSE IF f.state = "corrupt" \/ io.read = "read_error"
        THEN [ret |-> None, store |-> st]
      ELSE IF t - f.timestamp < TtlDays
        THEN LET cache_data == [f EXCEPT !.hits = f.hits + 1, !.last_used = t,
                                         !.timestamp = t]
             IN  [ret |-> IF io.write = "ok" THEN cache_data ELSE None,
                  store |-> WriteFile(st, cache_key, cache_data, io.write)]
      ELSE [ret |-> None, store |-> [st EXCEPT ![cache_key] = Absent]]

\* AICodeCache.get: the value returned (ret, None for a miss) and the store
\* it leaves behind.
CacheGet(st, question, season, t, io) ==
  LET cache_key == GenerateCacheKey(question, season)
      f == st[cache_key]
  IN  IF f.state = "absent" THEN [ret |-> None, store |-> st]
      ELSE IF f.state = "corrupt" \/ io.read = "read_error"
        THEN [ret |-> None, store |-> st]
      ELSE IF t - f.timestamp < TtlDays
        THEN LET cache_data == [f EXCEPT !.hits = f.hits + 1, !.last_used = t]
             IN  [ret |-> IF io.write = "ok" THEN cache_data ELSE None,
                  store |-> WriteFile(st, cache_key, cache_data, io.write)]
      ELSE [ret |-> None, store |-> [st EXCEPT ![cache_key] = Absent]]

\* AICodeCache.set returning early when the file of the key already exists.
CacheSet_KeepPrior(st, question, season, code, success, t, w) ==
  IF ~success \/ st[GenerateCacheKey(question, season)].state # "absent" THEN st
  ELSE [st EXCEPT ![GenerateCacheKey(question, season)] =
          [state |-> "entry", question |-> question,
           normalized |-> NormalizeQuestion(question, season),
           season |-> season, code |-> code, timestamp |-> t,
           last_used |-> t, hits |-> 0, success |-> success]]

\* AICodeCache.set.  The execution_time field (a duration nothing reads back)
\* is left out of cache_data.
CacheSet(st, question, season, code, success, t, w) ==
  IF ~success THEN st
  ELSE LET cache_key == GenerateCacheKey(question, season)
           cache_data == [state |-> "entry",
                          question |-> question,
                          normalized |-> NormalizeQuestion(question, season),
                          season |-> season,
                          code |-> code,
                          timestamp |-> t,
                          last_used |-> t,
                          hits |-> 0,
                          success |-> success]
       IN  WriteFile(st, cache_key, cache_data, w)

\* ---------------------------------------------------------------- binding
\* The backends in the order in which auto mode tries them.
Backends == <<"ollama", "gemini", "openai">>

\* The value of `provider` after the AI_PROVIDER lookup: "auto", a backend,
\* or a string the constructor does not know.
Modes == {"auto", "ollama", "gemini", "openai", "other"}

\* What each _init_<backend> would return: TRUE iff its package imports and
\* ollama.list() answers (Ollama) or an API key is found (Gemini, OpenAI).
ProbeOutcomes == [{"ollama", "gemini", "openai"} -> BOOLEAN]

\* The attributes before any _init_ ran: provider None, no client handle.
Unbound == [provider |-> "none", handles |-> {}, ai_available |-> FALSE]

\* _init_ollama / _init_gemini / _init_openai: on success the client handle,
\* provider and ai_available are set; on failure nothing is changed.
InitBackend(b, probes, e) ==
  IF probes[b]
    THEN [provider |-> b, handles |-> e.handles \cup {b}, ai_available |-> TRUE]
    ELSE e

\* The constructor run to its end although an earlier _init_ returned True.
Bind_NoReturn(mode, probes) ==
  CASE mode = "auto" ->
         InitBackend("openai", probes,
           InitBackend("gemini", probes, InitBackend("ollama", probes, Unbound)))
    [] mode \in {"ollama", "gemini", "openai"} -> InitBackend(mode, probes, Unbound)
    [] OTHER -> Unbound

\* AIQueryHandler.__init__, the provider selection.
Bind(mode, probes) ==
  CASE mode = "auto" ->
         IF probes["ollama"] THEN InitBackend("ollama", probes, Unbound)
         ELSE IF probes["gemini"] THEN InitBackend("gemini", probes, Unbound)
         ELSE InitBackend("openai", probes, Unbound)
    [] mode \in {"ollama", "gemini", "openai"} -> InitBackend(mode, probes, Unbound)
    [] OTHER -> Unbound

\* The engine record: the binding and the inputs it was computed from.
MkEngine(mode, probes) ==
  LET b == Bind(mode, probes)
  IN  [provider |-> b.provider, handles |-> b.handles,
       mode |-> mode, probes |-> probes]

\* AICodeCache.remove reporting a removal without removing the file.
CacheRemove_KeepFile(st, cache_key, rm) ==
  [ret |-> st[cache_key].state # "absent", store |-> st]

\* AICodeCache.remove: the returned flag and the store left behind.  rm is
\* the outcome of os.remove ("ok" or "error").
CacheRemove(st, cache_key, rm) ==
  IF st[cache_key].state # "absent"
    THEN IF rm = "ok"
           THEN [ret |-> TRUE, store |-> [st EXCEPT ![cache_key] = Absent]]
           ELSE [ret |-> FALSE, store |-> st]
    ELSE [ret |-> FALSE, store |-> st]

\* AICodeCache.clear: the number of files removed and the store left behind.
CacheClear(st) ==
  [ret |-> Cardinality({k \in DOMAIN st : st[k].state # "absent"}),
   store |-> [k \in DOMAIN st |-> Absent]]

\* ---------------------------------------------------------------- state
VARIABLES
  ai_available,  \* self.ai_available, fixed by the constructor
  store,         \* the cache directory: cache key -> cache file
  now,           \* datetime.now(), in days
  pc,            \* position of the current handle_query_with_retry call
  req,           \* (question, season) of the current call
  code,          \* local variable code of the current call
  result,        \* local variable result; at pc = "done" the returned value
  nreq,          \* number of calls started
  store0,        \* history: the store when the current call started
  hist,          \* history of the current call (see NoHistory)
  engine,        \* what the constructor bound: provider, handles, and its inputs
  op,            \* history: the last call of remove / clear / get / set made
  procs,         \* concurrent callers of the cache: position and local cache_data
  last_set,      \* history: the code of the set call that returned last
  norm           \* two questions and their normalized strings (see SpecNorm)
                 \* on the cache from outside a request

\* The variables that the steps of a request leave alone.
aux == <<engine, op, procs, last_set, norm>>

vars == <<ai_available, store, now, pc, req, code, result, nreq, store0, hist,
          engine, op, procs, last_set, norm>>

\* History of one call: number of _generate_code calls (gen) and of
\* _generate_code_with_feedback calls (fb), the verdicts of
\* _validate_code_safety, the runs of _execute_code, the code_cache.set calls,
\* and the entry returned by code_cache.get (None for a miss).
NoHistory ==
  [gen |-> 0, fb |-> 0, verdicts |-> {}, execs |-> {}, sets |-> {}, got |-> None]

EmptyStore == [k \in CacheKeys |-> Absent]

\* No call was made on the cache from outside a request.
NoOp == [name |-> "none"]

\* The concurrent callers of the cache (sessions of the application sharing
\* one cache directory) and a caller that is in no call.  Of each caller the
\* position, the number of calls begun, the cache_data it holds, the number
\* of its get calls that returned an entry (hit) and the number of its remove
\* calls that deleted the file (removed).
Procs == {1, 2}
IdleProc == [pc |-> "idle", calls |-> 0, data |-> None, hit |-> 0, removed |-> 0]

\* No questions drawn.
NoNorm == [q1 |-> <<>>, q2 |-> <<>>, season |-> 0, n1 |-> <<>>, n2 |-> <<>>,
           edits |-> 0, derived |-> FALSE, done |-> FALSE]

\* The probe outcomes under which Spec constructs its engine: no backend
\* answers, or all do.
AllProbes(b) == [x \in {"ollama", "gemini", "openai"} |-> b]

Init ==
  /\ \E b \in BOOLEAN :
       /\ engine = MkEngine("auto", AllProbes(b))
       /\ ai_available = Bind("auto", AllProbes(b)).ai_available
  /\ op = NoOp
  /\ procs = [p \in Procs |-> IdleProc]
  /\ last_set = None
  /\ norm = NoNorm
  /\ store = EmptyStore
  /\ now = 0
  /\ pc = "idle"
  /\ req = CHOOSE q \in Queries : q.season = 2023
  /\ code = EmptyCode
  /\ result = NoResult
  /\ nreq = 0
  /\ store0 = EmptyStore
  /\ hist = NoHistory

\* A caller invokes handle_query_with_retry(question, season); the call before
\* it has returned (pc = "done") or raised (pc = "raised").
StartRequest ==
  /\ pc \in {"idle", "done", "raised"}
  /\ nreq < MaxRequests
  /\ \E q \in Queries : req' = q
  /\ nreq' = nreq + 1
  /\ pc' = "handle_query"
  /\ code' = EmptyCode
  /\ result' = NoResult
  /\ store0' = store
  /\ hist' = NoHistory
  /\ UNCHANGED <<aux, ai_available, store, now>>

\* handle_query, `if not self.ai_available: return {...}`.
HandleQueryUnavailable ==
  /\ pc = "handle_query"
  /\ ~ai_available
  /\ result' = MkResult(FALSE, <<"AI", "not", "available.">>, "none")
  /\ pc' = "retry_decide"
  /\ UNCHANGED <<aux, ai_available, store, now, req, code, nreq, store0, hist>>

\* handle_query, step 0: cached_entry = self.code_cache.get(question, season).
CacheLookupWith(ios) ==
  /\ pc = "handle_query"
  /\ ai_available
  /\ \E io \in ios :
       LET g == CacheGet(store, req.question, req.season, now, io)
       IN  /\ store' = g.store
           /\ hist' = [hist EXCEPT !.got = g.ret]
           /\ IF g.ret # None
                THEN /\ code' = g.ret.code
                     /\ pc' = "exec_cached"
                ELSE /\ code' = code
                     /\ pc' = "generate"
  /\ UNCHANGED <<aux, ai_available, now, req, result, nreq, store0>>

\* The cached branch without `result['cached'] = True`.
ExecuteCached_NoFlag ==
  /\ pc = "exec_cached"
  /\ \E o \in ExecOutcomes :
       LET r == ExecuteCode(code, o)
       IN  /\ result' = r
           /\ hist' = [hist EXCEPT !.execs = @ \cup
                         {[code |-> code.text, success |-> r.success, via |-> "cached",
                           kind |-> RunKind(code, o), error |-> r.error]}]
  /\ pc' = "retry_decide"
  /\ UNCHANGED <<aux, ai_available, store, now, req, code, nreq, store0>>

\* handle_query, cached branch: run the cached code and return the result.
ExecuteCached ==
  /\ pc = "exec_cached"
  /\ \E o \in ExecOutcomes :
       LET r == ExecuteCode(code, o)
       IN  /\ result' = IF r.success THEN [r EXCEPT !.cached = "true"] ELSE r
           /\ hist' = [hist EXCEPT !.execs = @ \cup
                         {[code |-> code.text, success |-> r.success, via |-> "cached",
                           kind |-> RunKind(code, o), error |-> r.error]}]
  /\ pc' = "retry_decide"
  /\ UNCHANGED <<aux, ai_available, store, now, req, code, nreq, store0>>

\* handle_query with step 2 (the call of _validate_code_safety) left out.
GenerateCode_SkipValidate ==
  /\ pc = "generate"
  /\ \E c \in GeneratorOutputs :
       /\ code' = c
       /\ IF c = EmptyCode
            THEN /\ result' = MkResult(FALSE, <<"AI", "returned", "empty", "code">>, "none")
                 /\ pc' = "retry_decide"
            ELSE /\ result' = result
                 /\ pc' = "execute"
  /\ hist' = [hist EXCEPT !.gen = @ + 1]
  /\ UNCHANGED <<aux, ai_available, store, now, req, nreq, store0>>

\* handle_query, step 1: code = self._generate_code(question, season).
\* _generate_code catches every Exception of the provider call and returns
\* "", so the `except Exception as gen_error` branch of handle_query is never
\* taken; an empty code takes the `if not code` return.
\* One call of _generate_code is one step, also for the Gemini backend, whose
\* branch repeats the provider request once with the "models/" prefix.
GenerateCode ==
  /\ pc = "generate"
  /\ \E c \in GeneratorOutputs :
       /\ code' = c
       /\ IF c = EmptyCode
            THEN /\ result' = MkResult(FALSE, <<"AI", "returned", "empty", "code">>, "none")
                 /\ pc' = "retry_decide"
            ELSE /\ result' = result
                 /\ pc' = "validate"
  /\ hist' = [hist EXCEPT !.gen = @ + 1]
  /\ UNCHANGED <<aux, ai_available, store, now, req, nreq, store0>>

\* Step 2 without the `if not is_safe: return` of handle_query.
ValidateFirst_Ignore ==
  /\ pc = "validate"
  /\ LET v == ValidateCodeSafety(code)
     IN  /\ hist' = [hist EXCEPT !.verdicts = @ \cup
                       {[code |-> code.text, outcome |-> v.outcome, attempt |-> 1]}]
         /\ IF v.outcome = "raise"
              THEN /\ result' = MkResult(FALSE,
                        <<"AI", "query", "handling", "failed", ":">> \o v.message, "none")
                   /\ pc' = "retry_decide"
              ELSE /\ result' = result
                   /\ pc' = "execute"
  /\ UNCHANGED <<aux, ai_available, store, now, req, code, nreq, store0>>

\* handle_query, step 2: is_safe, safety_message = _validate_code_safety(code).
\* An exception of the validator is caught by the outer `except Exception`.
ValidateFirst ==
  /\ pc = "validate"
  /\ LET v == ValidateCodeSafety(code)
     IN  /\ hist' = [hist EXCEPT !.verdicts = @ \cup
                       {[code |-> code.text, outcome |-> v.outcome, attempt |-> 1]}]
         /\ CASE v.outcome = "unsafe" ->
                   /\ result' = MkResult(FALSE,
                        <<"Generated", "code", "failed", "safety", "check", ":">>
                          \o v.message, "none")
                   /\ pc' = "retry_decide"
              [] v.outcome = "raise" ->
                   /\ result' = MkResult(FALSE,
                        <<"AI", "query", "handling", "failed", ":">> \o v.message, "none")
                   /\ pc' = "retry_decide"
              [] v.outcome = "safe" ->
                   /\ result' = result
                   /\ pc' = "execute"
  /\ UNCHANGED <<aux, ai_available, store, now, req, code, nreq, store0>>

\* Step 3 with code_cache.set called before result.get('success') is tested.
ExecuteFirstWith_CacheAlways(ios) ==
  /\ pc = "execute"
  /\ \E o \in ExecOutcomes, w \in {io.write : io \in ios} :
       LET r == ExecuteCode(code, o)
       IN  /\ hist' = [hist EXCEPT
                 !.execs = @ \cup
                   {[code |-> code.text, success |-> r.success, via |-> "first",
                     kind |-> RunKind(code, o), error |-> r.error]},
                 !.sets = @ \cup {[code |-> code.text, write |-> w]}]
           /\ store' = CacheSet(store, req.question, req.season, code, TRUE, now, w)
           /\ result' = IF r.success THEN [r EXCEPT !.cached = "false"] ELSE r
  /\ pc' = "retry_decide"
  /\ UNCHANGED <<aux, ai_available, now, req, code, nreq, store0>>

\* handle_query, step 3: run the candidate; on success store it in the cache.
ExecuteFirstWith(ios) ==
  /\ pc = "execute"
  /\ \E o \in ExecOutcomes, w \in {io.write : io \in ios} :
       LET r == ExecuteCode(code, o)
       IN  /\ hist' = [hist EXCEPT
                 !.execs = @ \cup
                   {[code |-> code.text, success |-> r.success, via |-> "first",
                     kind |-> RunKind(code, o), error |-> r.error]},
                 !.sets = IF r.success
                            THEN @ \cup {[code |-> code.text, write |-> w]}
                            ELSE @]
           /\ IF r.success
                THEN /\ store' = CacheSet(store, req.question, req.season, code,
                                          TRUE, now, w)
                     /\ result' = [r EXCEPT !.cached = "false"]
                ELSE /\ store' = store
                     /\ result' = r
  /\ pc' = "retry_decide"
  /\ UNCHANGED <<aux, ai_available, now, req, code, nreq, store0>>

\* The tests without the `'safety check' in ... or 'unauthorized' in ...` return.
ShouldRetry_NoSafety(res, available) ==
  LET error_msg == res.error
  IN  /\ ~res.success
      /\ ~(\/ ~available
           \/ Contains(<<"AI", "query", "handling", "failed">>, error_msg))

\* The tests without `not self.ai_available` in the third one.
ShouldRetry_NoAvailable(res, available) ==
  LET error_msg == res.error
  IN  /\ ~res.success
      /\ ~(\/ Contains(<<"safety", "check">>, LowerMsg(error_msg))
           \/ Contains(<<"unauthorized">>, LowerMsg(error_msg)))
      /\ ~Contains(<<"AI", "query", "handling", "failed">>, error_msg)

\* handle_query_with_retry, the tests between the first attempt and the retry:
\* TRUE iff none of the three early returns is taken.
ShouldRetry(res, available) ==
  LET error_msg == res.error
  IN  /\ ~res.success
      /\ ~(\/ Contains(<<"safety", "check">>, LowerMsg(error_msg))
           \/ Contains(<<"unauthorized">>, LowerMsg(error_msg)))
      /\ ~(\/ ~available
           \/ Contains(<<"AI", "query", "handling", "failed">>, error_msg))

\* ---------------------------------------------------------------- prompts
\* A prompt text is the sequence of its parts; a part that depends on the
\* call carries its value.
Part(name, value) == [part |-> name, value |-> value]

\* system_prompt of _generate_code: the manifest of data_fetcher and
\* data_processor methods, the stat field names, the output rules, the
\* comparison guidelines, Examples 1-6 and the comparison rules.
SystemPrompt ==
  << Part("manifest", <<>>), Part("stat_field_names", <<>>),
     Part("output_rules", <<>>), Part("comparison_guidelines", <<>>),
     Part("examples", <<>>), Part("comparison_rules", <<>>) >>

\* user_prompt of _generate_code.
UserPrompt(question, season) ==
  << Part("question", question), Part("season", <<season>>),
     Part("instruction", <<"answer">>) >>

\* The messages _generate_code sends: a system and a user message to Ollama
\* and OpenAI, one text holding both prompts to Gemini.
GenerateMessages(question, season, provider) ==
  IF provider = "gemini"
    THEN << [role |-> "user", content |-> SystemPrompt \o UserPrompt(question, season)] >>
  ELSE << [role |-> "system", content |-> SystemPrompt],
          [role |-> "user", content |-> UserPrompt(question, season)] >>

\* previous_result.get('traceback', ''): only the result of the except
\* branch of _execute_code carries a traceback.
TracebackOf(res) ==
  IF Len(res.error) >= 3 /\ SubSeq(res.error, 1, 3) = <<"Code", "execution", "failed">>
    THEN <<"Traceback">> ELSE <<>>

\* feedback_prompt of _generate_code_with_feedback.  A missing 'error' reads
\* as 'Unknown error' and a missing 'generated_code' as ''.
FeedbackPrompt(question, season, previous_result) ==
  << Part("failure_notice", <<>>),
     Part("question", question), Part("season", <<season>>),
     Part("previous_code", IF previous_result.generated_code = "none" THEN <<"">>
                           ELSE <<previous_result.generated_code>>),
     Part("previous_error", IF previous_result.error = <<>> THEN <<"Unknown", "error">>
                            ELSE previous_result.error),
     Part("traceback", TracebackOf(previous_result)),
     Part("reminders", <<>>),
     Part("instruction", <<"corrected">>) >>

\* The messages _generate_code_with_feedback sends: one user message, to
\* every provider.
FeedbackMessages(question, season, previous_result, provider) ==
  << [role |-> "user", content |-> FeedbackPrompt(question, season, previous_result)] >>

\* The parts of all messages of a request, in order.
RECURSIVE Contents(_)
Contents(messages) ==
  IF messages = <<>> THEN <<>>
  ELSE Head(messages).content \o Contents(Tail(messages))

\* The first-attempt results after which handle_query_with_retry asks for a
\* feedback generation.
PreviousResults ==
  { r \in {ExecuteCode(c, o) : c \in Candidates, o \in ExecOutcomes}
          \cup {MkResult(FALSE, <<"AI", "returned", "empty", "code">>, "none")} :
      ShouldRetry(r, TRUE) }

\* handle_query_with_retry after handle_query returned.  error_msg.lower()
\* raises AttributeError, outside any try, when result['error'] is not a str.
RetryDecide ==
  /\ pc = "retry_decide"
  /\ pc' = IF ~result.success /\ result.error = NonStringError THEN "raised"
           ELSE IF ShouldRetry(result, ai_available) THEN "gen_feedback"
           ELSE "done"
  /\ UNCHANGED <<aux, ai_available, store, now, req, code, result, nreq, store0, hist>>

\* The feedback generation repeated until the provider returns some code.
GenerateCodeWithFeedback_Loop ==
  /\ pc = "gen_feedback"
  /\ \E c \in GeneratorOutputs :
       /\ code' = c
       /\ result' = result
       /\ pc' = IF c = EmptyCode THEN "gen_feedback" ELSE "retry_validate"
  /\ hist' = [hist EXCEPT !.fb = @ + 1]
  /\ UNCHANGED <<aux, ai_available, store, now, req, nreq, store0>>

\* code = self._generate_code_with_feedback(question, season, result); the
\* method returns "" when the provider call raises.
GenerateCodeWithFeedback ==
  /\ pc = "gen_feedback"
  /\ \E c \in GeneratorOutputs :
       /\ code' = c
       /\ IF c = EmptyCode
            THEN /\ result' = [result EXCEPT !.retry_attempted = TRUE]
                 /\ pc' = "done"
            ELSE /\ result' = result
                 /\ pc' = "retry_validate"
  /\ hist' = [hist EXCEPT !.fb = @ + 1]
  /\ UNCHANGED <<aux, ai_available, store, now, req, nreq, store0>>

\* The retry without the `if not is_safe` return.
ValidateRetry_Ignore ==
  /\ pc = "retry_validate"
  /\ LET v == ValidateCodeSafety(code)
     IN  /\ hist' = [hist EXCEPT !.verdicts = @ \cup
                       {[code |-> code.text, outcome |-> v.outcome, attempt |-> 2]}]
         /\ IF v.outcome # "raise"
              THEN /\ result' = result
                   /\ pc' = "retry_execute"
              ELSE /\ result' = [result EXCEPT !.retry_attempted = TRUE]
                   /\ pc' = "done"
  /\ UNCHANGED <<aux, ai_available, store, now, req, code, nreq, store0>>

\* Validation of the retry code; a rejection and an exception of the
\* validator both return the first result with retry_attempted set.
ValidateRetry ==
  /\ pc = "retry_validate"
  /\ LET v == ValidateCodeSafety(code)
     IN  /\ hist' = [hist EXCEPT !.verdicts = @ \cup
                       {[code |-> code.text, outcome |-> v.outcome, attempt |-> 2]}]
         /\ IF v.outcome = "safe"
              THEN /\ result' = result
                   /\ pc' = "retry_execute"
              ELSE /\ result' = [result EXCEPT !.retry_attempted = TRUE]
                   /\ pc' = "done"
  /\ UNCHANGED <<aux, ai_available, store, now, req, code, nreq, store0>>

\* The code text named by result['generated_code'].
CodeOfText(t) ==
  IF \E c \in Candidates : c.text = t
    THEN CHOOSE c \in Candidates : c.text = t
    ELSE EmptyCode

\* The retry caching previous_result['generated_code'] instead of the retry code.
ExecuteRetryWith_Stale(ios) ==
  /\ pc = "retry_execute"
  /\ \E o \in ExecOutcomes, w \in {io.write : io \in ios} :
       LET retry_result == ExecuteCode(code, o)
       IN  /\ hist' = [hist EXCEPT
                 !.execs = @ \cup
                   {[code |-> code.text, success |-> retry_result.success,
                     via |-> "retry", kind |-> RunKind(code, o),
                     error |-> retry_result.error]},
                 !.sets = IF retry_result.success
                            THEN @ \cup {[code |-> result.generated_code, write |-> w]}
                            ELSE @]
           /\ IF retry_result.success
                THEN /\ store' = CacheSet(store, req.question, req.season,
                                          CodeOfText(result.generated_code),
                                          TRUE, now, w)
                     /\ result' = [retry_result EXCEPT !.cached = "false",
                                                       !.retry_attempted = TRUE,
                                                       !.retry_succeeded = TRUE]
                ELSE /\ store' = store
                     /\ result' = [result EXCEPT !.retry_attempted = TRUE]
  /\ pc' = "done"
  /\ UNCHANGED <<aux, ai_available, now, req, code, nreq, store0>>

\* Execution of the retry code; on success it is cached and its result is
\* returned, otherwise the first result is returned.
ExecuteRetryWith(ios) ==
  /\ pc = "retry_execute"
  /\ \E o \in ExecOutcomes, w \in {io.write : io \in ios} :
       LET retry_result == ExecuteCode(code, o)
       IN  /\ hist' = [hist EXCEPT
                 !.execs = @ \cup
                   {[code |-> code.text, success |-> retry_result.success,
                     via |-> "retry", kind |-> RunKind(code, o),
                     error |-> retry_result.error]},
                 !.sets = IF retry_result.success
                            THEN @ \cup {[code |-> code.text, write |-> w]}
                            ELSE @]
           /\ IF retry_result.success
                THEN /\ store' = CacheSet(store, req.question, req.season, code,
                                          TRUE, now, w)
                     /\ result' = [retry_result EXCEPT !.cached = "false",
                                                       !.retry_attempted = TRUE,
                                                       !.retry_succeeded = TRUE]
                ELSE /\ store' = store
                     /\ result' = [result EXCEPT !.retry_attempted = TRUE]
  /\ pc' = "done"
  /\ UNCHANGED <<aux, ai_available, now, req, code, nreq, store0>>

\* exec(code, ...) of a candidate that raises something that is not an
\* Exception (SystemExit): neither _execute_code nor handle_query nor
\* handle_query_with_retry catches it.
RunRaisesBaseException ==
  /\ pc \in {"exec_cached", "execute", "retry_execute"}
  /\ code.compile = "ok"
  /\ hist' = [hist EXCEPT !.execs = @ \cup
                {[code |-> code.text, success |-> FALSE,
                  via |-> CASE pc = "exec_cached" -> "cached"
                            [] pc = "execute" -> "first"
                            [] OTHER -> "retry",
                  kind |-> "base_exception", error |-> <<>>]}]
  /\ pc' = "raised"
  /\ UNCHANGED <<aux, ai_available, store, now, req, code, result, nreq, store0>>

\* exec(code, ...) of a candidate that does not finish (`while True: pass`
\* passes the validator): exec has no time limit, so the call stays inside it.
RunNeverReturns ==
  /\ pc \in {"exec_cached", "execute", "retry_execute"}
  /\ code.compile = "ok"
  /\ pc' = "in_exec"
  /\ UNCHANGED <<aux, ai_available, store, now, req, code, result, nreq, store0, hist>>

\* A first run (cached or generated code) that assigns a result dictionary
\* with success False and an 'error' that is not a str; handle_query returns it.
RunReportsNonStringError ==
  /\ pc \in {"exec_cached", "execute"}
  /\ code.compile = "ok"
  /\ result' = MkResult(FALSE, NonStringError, code.text)
  /\ hist' = [hist EXCEPT !.execs = @ \cup
                {[code |-> code.text, success |-> FALSE,
                  via |-> IF pc = "exec_cached" THEN "cached" ELSE "first",
                  kind |-> "own_failure", error |-> NonStringError]}]
  /\ pc' = "retry_decide"
  /\ UNCHANGED <<aux, ai_available, store, now, req, code, nreq, store0>>

\* The steps of a request that touch the cache files, on a cache directory
\* whose reads and writes may fail.
CacheLookupFaulty == CacheLookupWith(IoOutcomes)

ExecuteFirstFaulty == ExecuteFirstWith(IoOutcomes)

ExecuteRetryFaulty == ExecuteRetryWith(IoOutcomes)

CacheLookup == CacheLookupWith(ReliableIo)

ExecuteFirst == ExecuteFirstWith(ReliableIo)

ExecuteRetry == ExecuteRetryWith(ReliableIo)

\* A new engine is constructed on the same cache directory (the files of the
\* directory outlive the engine that wrote them); nothing of an earlier
\* engine's requests is left but the files.
ConstructWith(inputs) ==
  /\ pc \in {"idle", "done"}
  /\ \E inp \in inputs :
       /\ engine' = MkEngine(inp[1], inp[2])
       /\ ai_available' = Bind(inp[1], inp[2]).ai_available
  /\ pc' = "idle"
  /\ code' = EmptyCode
  /\ result' = NoResult
  /\ store0' = store
  /\ hist' = NoHistory
  /\ op' = NoOp
  /\ UNCHANGED <<store, now, req, nreq, procs, last_set, norm>>

\* Construction in any mode, with any probe outcomes.
Construct == ConstructWith(Modes \X ProbeOutcomes)

\* Construction as under Spec: auto mode, no backend or every backend answers.
Restart == ConstructWith({<<"auto", AllProbes(b)>> : b \in BOOLEAN})

\* cache.remove(cache_key), as the "Retry with Fresh AI" button calls it
\* between two requests.
Remove ==
  /\ pc \in {"idle", "done"}
  /\ \E k \in CacheKeys :
       LET r == CacheRemove(store, k, "ok")
       IN  /\ store' = r.store
           /\ op' = [name |-> "remove", key |-> k, ret |-> r.ret]
  /\ UNCHANGED <<ai_available, now, pc, req, code, result, nreq, store0, hist,
                 engine, procs, last_set, norm>>

\* clear_code_cache() between two requests.
Clear ==
  /\ pc \in {"idle", "done"}
  /\ LET r == CacheClear(store)
     IN  /\ store' = r.store
         /\ op' = [name |-> "clear", ret |-> r.ret]
  /\ UNCHANGED <<ai_available, now, pc, req, code, result, nreq, store0, hist,
                 engine, procs, last_set, norm>>

\* The code texts _validate_code_safety is applied to as a function: any
\* combination of matched patterns (eval(, open(, __), imported modules that
\* match no pattern, and outcome of compile().
ValidatorInputs ==
  { MkCode("input", ms, im, comp) :
      ms \in SUBSET {1, 5, 21},
      im \in {<<>>, <<"pandas">>, <<"socket">>, <<"pandas", "socket">>,
              <<"requests", "socket">>, <<"numpy", "re">>},
      comp \in {"ok", "SyntaxError", "RecursionError"} }

\* _validate_code_safety(code) called on a code text; the call is recorded
\* with its verdict.
ValidateCall ==
  /\ pc = "idle"
  /\ \E c \in ValidatorInputs :
       op' = [name |-> "validate", code |-> c, verdict |-> ValidateCodeSafety(c)]
  /\ UNCHANGED <<ai_available, store, now, pc, req, code, result, nreq, store0,
                 hist, engine, procs, last_set, norm>>

\* A candidate expression goes through the handler's pipeline as a function:
\* _validate_code_safety, and _execute_code only when the verdict is safe.
\* The call is recorded with the verdict and with what the run reached.
SandboxCall ==
  /\ pc = "idle"
  /\ op.name = "candidate"
  /\ LET v == ValidateCodeSafety(PathCode(op.path))
     IN  op' = [name |-> "sandbox", path |-> op.path, verdict |-> v.outcome,
                reached |-> IF v.outcome = "safe" THEN RunPath(op.path)
                            ELSE "not run"]
  /\ UNCHANGED <<ai_available, store, now, pc, req, code, result, nreq, store0,
                 hist, engine, procs, last_set, norm>>

\* _generate_code(question, season) as a function: the request sent to the
\* provider is recorded.
GenerateCall ==
  /\ pc = "idle"
  /\ \E q \in Queries, k \in DOMAIN Backends :
       op' = [name |-> "generate", question |-> q.question, season |-> q.season,
              provider |-> Backends[k],
              prompt |-> Contents(GenerateMessages(q.question, q.season, Backends[k]))]
  /\ UNCHANGED <<ai_available, store, now, pc, req, code, result, nreq, store0,
                 hist, engine, procs, last_set, norm>>

\* _generate_code_with_feedback(question, season, previous_result) as a
\* function: the request sent is recorded, with the prompt parts that
\* _generate_code sends for the same question, season and provider.
FeedbackCall ==
  /\ pc = "idle"
  /\ \E q \in Queries, k \in DOMAIN Backends, r \in PreviousResults :
       op' = [name |-> "feedback", question |-> q.question, season |-> q.season,
              provider |-> Backends[k], previous |-> r,
              original |-> Contents(GenerateMessages(q.question, q.season, Backends[k])),
              prompt |-> Contents(FeedbackMessages(q.question, q.season, r, Backends[k]))]
  /\ UNCHANGED <<ai_available, store, now, pc, req, code, result, nreq, store0,
                 hist, engine, procs, last_set, norm>>

\* Is the file of a key absent, live or expired at time t?
FileStatus(f, t) ==
  IF f.state # "entry" THEN f.state
  ELSE IF t - f.timestamp < TtlDays THEN "live" ELSE "expired"

\* The code texts handed to set by a caller of the cache.
CachedCodes == {SafeA, SafeB}

\* cache.get(question, season) called directly (as the tests do).  The call is
\* recorded with the file it found and, when the call before it was a set of
\* the same key at the same time, with that set.
GetCall ==
  /\ pc = "idle"
  /\ \E q \in Queries :
       LET k == GenerateCacheKey(q.question, q.season)
           g == CacheGet(store, q.question, q.season, now, [read |-> "ok", write |-> "ok"])
       IN  /\ store[k].state = "entry" => store[k].hits < MaxHits
           /\ store' = g.store
           /\ op' = [name |-> "get", key |-> k, t |-> now, before |-> store[k],
                     ret |-> g.ret,
                     prev |-> IF op.name = "set" /\ op.key = k /\ op.t = now
                              THEN op ELSE NoOp]
  /\ UNCHANGED <<ai_available, now, pc, req, code, result, nreq, store0, hist,
                 engine, procs, last_set, norm>>

\* cache.set(question, season, code) called directly; success defaults to True.
SetCall ==
  /\ pc = "idle"
  /\ \E q \in Queries, c \in CachedCodes :
       LET k == GenerateCacheKey(q.question, q.season)
       IN  /\ store' = CacheSet(store, q.question, q.season, c, TRUE, now, "ok")
           /\ op' = [name |-> "set", key |-> k, t |-> now, code |-> c,
                     prior |-> FileStatus(store[k], now)]
  /\ UNCHANGED <<ai_available, now, pc, req, code, result, nreq, store0, hist,
                 engine, procs, last_set, norm>>

\* ---- get and set of one key called by concurrent callers, one file
\* operation per step.  Truncation by open(path, 'wb') and the write of the
\* pickle at dump/close are separate steps; the write replaces the content.
ConcQuery == CHOOSE q \in Queries : q.season = 2023
ConcKey == GenerateCacheKey(ConcQuery.question, ConcQuery.season)

\* The variables a step of a concurrent caller leaves alone.
ConcFrame ==
  UNCHANGED <<ai_available, now, pc, req, code, result, nreq, store0, hist,
              engine, op, norm>>

\* Caller p returns from its call.
Return(p) == [procs EXCEPT ![p].pc = "idle", ![p].data = None]

\* Caller p enters get(question, season).
GetBegin ==
  /\ \E p \in Procs :
       /\ procs[p].pc = "idle"
       /\ procs[p].calls < MaxProcCalls
       /\ procs' = [procs EXCEPT ![p].pc = "get_exists", ![p].calls = @ + 1]
  /\ UNCHANGED <<store, last_set>>
  /\ ConcFrame

\* if not os.path.exists(cache_path): return None
GetExists ==
  /\ \E p \in Procs :
       /\ procs[p].pc = "get_exists"
       /\ procs' = IF store[ConcKey] = Absent THEN Return(p)
                   ELSE [procs EXCEPT ![p].pc = "get_load"]
  /\ UNCHANGED <<store, last_set>>
  /\ ConcFrame

\* open(cache_path, 'rb'), pickle.load and the expiration test.  A missing or
\* truncated file raises, and get returns None.
GetLoad ==
  /\ \E p \in Procs :
       /\ procs[p].pc = "get_load"
       /\ LET g == CacheGet(store, ConcQuery.question, ConcQuery.season, now,
                           [read |-> "ok", write |-> "ok"])
          IN  procs' =
                IF store[ConcKey].state # "entry" THEN Return(p)
                ELSE IF g.ret # None
                  THEN [procs EXCEPT ![p].pc = "get_open", ![p].data = g.ret]
                ELSE [procs EXCEPT ![p].pc = "get_remove"]
  /\ UNCHANGED <<store, last_set>>
  /\ ConcFrame

\* with open(cache_path, 'wb') as f: the file is truncated.
GetOpen ==
  /\ \E p \in Procs :
       /\ procs[p].pc = "get_open"
       /\ procs' = [procs EXCEPT ![p].pc = "get_dump"]
  /\ store' = [store EXCEPT ![ConcKey] = Corrupt]
  /\ UNCHANGED last_set
  /\ ConcFrame

\* pickle.dump(cache_data, f); return cache_data
GetDump ==
  /\ \E p \in Procs :
       /\ procs[p].pc = "get_dump"
       /\ store' = [store EXCEPT ![ConcKey] = procs[p].data]
       /\ procs' = [Return(p) EXCEPT ![p].hit = @ + 1]
  /\ UNCHANGED last_set
  /\ ConcFrame

\* os.remove(cache_path); return None (a missing file raises; None as well).
GetRemove ==
  /\ \E p \in Procs :
       /\ procs[p].pc = "get_remove"
       /\ procs' = Return(p)
  /\ store' = [store EXCEPT ![ConcKey] = Absent]
  /\ UNCHANGED last_set
  /\ ConcFrame

\* Caller p enters set(question, season, code) and builds cache_data.
SetBegin ==
  /\ \E p \in Procs, c \in CachedCodes :
       /\ procs[p].pc = "idle"
       /\ procs[p].calls < MaxProcCalls
       /\ procs' = [procs EXCEPT
                      ![p].pc = "set_open",
                      ![p].calls = @ + 1,
                      ![p].data = CacheSet(EmptyStore, ConcQuery.question,
                                           ConcQuery.season, c, TRUE, now,
                                           "ok")[ConcKey]]
  /\ UNCHANGED <<store, last_set>>
  /\ ConcFrame

\* with open(cache_path, 'wb') as f: the file is truncated.
SetOpen ==
  /\ \E p \in Procs :
       /\ procs[p].pc = "set_open"
       /\ procs' = [procs EXCEPT ![p].pc = "set_dump"]
  /\ store' = [store EXCEPT ![ConcKey] = Corrupt]
  /\ UNCHANGED last_set
  /\ ConcFrame

\* pickle.dump(cache_data, f); set returns.
SetDump ==
  /\ \E p \in Procs :
       /\ procs[p].pc = "set_dump"
       /\ store' = [store EXCEPT ![ConcKey] = procs[p].data]
       /\ last_set' = procs[p].data.code
       /\ procs' = Return(p)
  /\ ConcFrame

\* Caller p enters remove(cache_key) (the retry buttons of the application)
\* or clear(), which removes the file of every key in the same way.
RemoveBegin ==
  /\ \E p \in Procs :
       /\ procs[p].pc = "idle"
       /\ procs[p].calls < MaxProcCalls
       /\ procs' = [procs EXCEPT ![p].pc = "remove_exists", ![p].calls = @ + 1]
  /\ UNCHANGED <<store, last_set>>
  /\ ConcFrame

\* if os.path.exists(cache_file): ... else return False (clear: the file is
\* listed by os.listdir or not).
RemoveExists ==
  /\ \E p \in Procs :
       /\ procs[p].pc = "remove_exists"
       /\ procs' = IF store[ConcKey] = Absent THEN Return(p)
                   ELSE [procs EXCEPT ![p].pc = "remove_unlink"]
  /\ UNCHANGED <<store, last_set>>
  /\ ConcFrame

\* os.remove(cache_file); return True.  On a file that is gone os.remove
\* raises, and the call returns False.
RemoveUnlink ==
  /\ \E p \in Procs :
       /\ procs[p].pc = "remove_unlink"
       /\ procs' = IF store[ConcKey] = Absent THEN Return(p)
                   ELSE [Return(p) EXCEPT ![p].removed = @ + 1]
  /\ store' = [store EXCEPT ![ConcKey] = Absent]
  /\ UNCHANGED last_set
  /\ ConcFrame

\* ---- _normalize_question applied to pairs of questions.
\* The questions of the docstring of _normalize_question.
DocExamples ==
  {
    <<"A", "a", "r", "o", "n", " ", "J", "u", "d", "g", "e", " ", "h",
      "o", "m", "e", " ", "r", "u", "n", "s", " ", "2", "0", "2", "4">>,
    <<"J", "u", "d", "g", "e", " ", "H", "R", " ", "i", "n", " ", "2",
      "0", "2", "4">>,
    <<"H", "o", "w", " ", "m", "a", "n", "y", " ", "h", "o", "m", "e",
      "r", "s", " ", "d", "i", "d", " ", "J", "u", "d", "g", "e", " ",
      "h", "i", "t", " ", "i", "n", " ", "2", "0", "2", "4", "?">>
  }

\* Short questions from which variants are derived.
BaseQuestions ==
  { <<"j", " ", "h", "r">>,
    <<"a", " ", "v", "s", " ", "b">> }

UpperLetters ==
  {"A", "B", "C", "D", "E", "F", "G", "H", "I", "J", "K", "L", "M", "N", "O",
   "P", "Q", "R", "S", "T", "U", "V", "W", "X", "Y", "Z"}

\* The letter c in the other case; any other character unchanged.
SwapCase(c) ==
  IF c \in UpperLetters THEN LowerChar(c)
  ELSE IF \E u \in UpperLetters : LowerChar(u) = c
    THEN CHOOSE u \in UpperLetters : LowerChar(u) = c
  ELSE c

\* s with the characters i..j replaced by the string w.
Splice(s, i, j, w) == SubSeq(s, 1, i - 1) \o w \o SubSeq(s, j + 1, Len(s))

\* The characters i..j of s begin and end at a boundary of words: the ends of
\* s and its whitespace, where str.split() cuts.
IsBounded(s, i, j) ==
  /\ 1 <= i /\ i <= j /\ j <= Len(s)
  /\ IF i = 1 THEN TRUE ELSE IsSpace(s[i - 1])
  /\ IF j = Len(s) THEN TRUE ELSE IsSpace(s[j + 1])

\* The variable norm after an edit that made q the second question.
Edited(q) == [norm EXCEPT !.q2 = q, !.edits = @ + 1]

\* An edit of the second question is possible.
CanEdit ==
  /\ ~norm.done
  /\ norm.edits < MaxEdits
  /\ Len(norm.q2) < MaxLen

NormFrame ==
  UNCHANGED <<ai_available, store, now, pc, req, code, result, nreq, store0,
              hist, engine, op, procs, last_set>>

\* One letter of the second question changes case.
EditCase ==
  /\ CanEdit
  /\ \E i \in DOMAIN norm.q2 :
       /\ SwapCase(norm.q2[i]) # norm.q2[i]
       /\ norm' = Edited([norm.q2 EXCEPT ![i] = SwapCase(@)])
  /\ NormFrame

\* A whitespace character is put before or after the second question.
EditSpace ==
  /\ CanEdit
  /\ \E c \in {" ", "\n"} :
       \/ norm' = Edited(<<c>> \o norm.q2)
       \/ norm' = Edited(norm.q2 \o <<c>>)
  /\ NormFrame

\* One of the characters ?!.,;: is put somewhere into the second question.
EditPunctuation ==
  /\ CanEdit
  /\ \E i \in 0..Len(norm.q2), c \in PunctuationChars :
       norm' = Edited(Splice(norm.q2, i + 1, i, <<c>>))
  /\ NormFrame

\* A word of the replacements table is exchanged for its expansion, or the
\* words of an expansion for the table word.
EditAbbreviation ==
  /\ CanEdit
  /\ \E r \in Replacements, i, j \in DOMAIN norm.q2 :
       /\ r[1] # r[2]
       /\ IsBounded(norm.q2, i, j)
       /\ \/ /\ SubSeq(norm.q2, i, j) = r[1]
             /\ norm' = Edited(Splice(norm.q2, i, j, r[2]))
          \/ /\ SubSeq(norm.q2, i, j) = r[2]
             /\ norm' = Edited(Splice(norm.q2, i, j, r[1]))
  /\ NormFrame

\* _normalize_question is called on both questions.
Normalize ==
  /\ norm.q1 # <<>>
  /\ ~norm.done
  /\ norm' = [norm EXCEPT !.n1 = NormalizeQuestion(norm.q1, norm.season),
                          !.n2 = NormalizeQuestion(norm.q2, norm.season),
                          !.done = TRUE]
  /\ NormFrame

\* A day passes.
Tick ==
  /\ now < MaxTime
  /\ now' = now + 1
  /\ UNCHANGED <<aux, ai_available, store, pc, req, code, result, nreq, store0, hist>>

Next ==
  \/ StartRequest
  \/ HandleQueryUnavailable
  \/ CacheLookup
  \/ ExecuteCached
  \/ GenerateCode
  \/ ValidateFirst
  \/ ExecuteFirst
  \/ RetryDecide
  \/ GenerateCodeWithFeedback
  \/ ValidateRetry
  \/ ExecuteRetry
  \/ Tick

Spec == Init /\ [][Next]_vars

\* The requests of Spec within one day, with engine restarts on the same cache
\* directory and with remove and clear between requests.
InitOps ==
  /\ Init
  /\ ai_available

NextOps ==
  \/ Restart
  \/ Remove
  \/ Clear
  \/ StartRequest
  \/ HandleQueryUnavailable
  \/ CacheLookup
  \/ ExecuteCached
  \/ GenerateCode
  \/ ValidateFirst
  \/ ExecuteFirst
  \/ RetryDecide
  \/ GenerateCodeWithFeedback
  \/ ValidateRetry
  \/ ExecuteRetry

SpecOps == InitOps /\ [][NextOps]_vars

\* The cache used directly: get and set called on one cache directory while
\* the days pass.
InitCache ==
  /\ Init
  /\ ai_available

NextCache ==
  \/ GetCall
  \/ SetCall
  \/ Tick

SpecCache == InitCache /\ [][NextCache]_vars

\* Requests under every failure: provider errors and empty responses
\* (GenerateCode), rejections and exceptions of the validator, failing runs,
\* and cache files whose reads and writes fail.
NextFault ==
  \/ StartRequest
  \/ HandleQueryUnavailable
  \/ CacheLookupFaulty
  \/ ExecuteCached
  \/ GenerateCode
  \/ ValidateFirst
  \/ ExecuteFirstFaulty
  \/ RunRaisesBaseException
  \/ RunReportsNonStringError
  \/ RetryDecide
  \/ GenerateCodeWithFeedback
  \/ ValidateRetry
  \/ ExecuteRetryFaulty
  \/ Tick

SpecFault == Init /\ [][NextFault]_vars

\* Requests whose candidates may run forever.  The interpreter keeps executing
\* the handler: a step of the current call that can be taken is taken.
RequestStep ==
  \/ HandleQueryUnavailable
  \/ CacheLookup
  \/ ExecuteCached
  \/ GenerateCode
  \/ ValidateFirst
  \/ ExecuteFirst
  \/ RetryDecide
  \/ GenerateCodeWithFeedback
  \/ ValidateRetry
  \/ ExecuteRetry

\* The positions of a call at which the handler itself is executing (a
\* RequestStep is enabled exactly there), and all positions.
RunningPcs ==
  {"handle_query", "exec_cached", "generate", "validate", "execute",
   "retry_decide", "gen_feedback", "retry_validate", "retry_execute"}
Positions == RunningPcs \cup {"idle", "done", "raised", "in_exec"}

\* The handler advances: every RequestStep changes pc.  Inside a run that
\* does not finish (pc = "in_exec") nothing makes the call advance.
Advance ==
  /\ pc \in RunningPcs
  /\ pc' \in Positions \ {pc}

NextLive ==
  \/ StartRequest
  \/ RequestStep
  \/ RunNeverReturns

SpecLive == Init /\ [][NextLive]_vars /\ WF_pc(Advance)

\* _validate_code_safety as a function of the code text.
InitValidate ==
  /\ Init
  /\ ai_available

NextValidate == ValidateCall

SpecValidate == InitValidate /\ [][NextValidate]_vars

\* The validator and the executor applied to candidate expressions.
InitSandbox ==
  /\ ai_available = TRUE
  /\ engine = MkEngine("auto", AllProbes(TRUE))
  /\ \E n \in 1..MaxPath : \E path \in PathsOfLen(n) :
       op = [name |-> "candidate", path |-> path]
  /\ procs = [p \in Procs |-> IdleProc]
  /\ last_set = None
  /\ norm = NoNorm
  /\ store = EmptyStore
  /\ now = 0
  /\ pc = "idle"
  /\ req = CHOOSE q \in Queries : q.season = 2023
  /\ code = EmptyCode
  /\ result = NoResult
  /\ nreq = 0
  /\ store0 = EmptyStore
  /\ hist = NoHistory

NextSandbox == SandboxCall

SpecSandbox == InitSandbox /\ [][NextSandbox]_vars

\* The two generation requests as functions of their arguments.
InitPrompt ==
  /\ Init
  /\ ai_available

NextPrompt ==
  \/ GenerateCall
  \/ FeedbackCall

SpecPrompt == InitPrompt /\ [][NextPrompt]_vars

\* Two callers of get and remove on one key that holds a live entry, written
\* by a set that has returned; no further set is called.
InitInval ==
  /\ ai_available = TRUE
  /\ engine = MkEngine("auto", AllProbes(TRUE))
  /\ op = NoOp
  /\ procs = [p \in Procs |-> IdleProc]
  /\ last_set = SafeA
  /\ norm = NoNorm
  /\ store = CacheSet(EmptyStore, ConcQuery.question, ConcQuery.season, SafeA,
                      TRUE, 0, "ok")
  /\ now = 0
  /\ pc = "idle"
  /\ req = CHOOSE q \in Queries : q.season = 2023
  /\ code = EmptyCode
  /\ result = NoResult
  /\ nreq = 0
  /\ store0 = EmptyStore
  /\ hist = NoHistory

NextInval ==
  \/ GetBegin
  \/ GetExists
  \/ GetLoad
  \/ GetOpen
  \/ GetDump
  \/ RemoveBegin
  \/ RemoveExists
  \/ RemoveUnlink

SpecInval == InitInval /\ [][NextInval]_vars

\* Two callers of get and set on one key of one cache directory.
InitConc ==
  /\ Init
  /\ ai_available

NextConc ==
  \/ GetBegin
  \/ GetExists
  \/ GetLoad
  \/ GetOpen
  \/ GetDump
  \/ GetRemove
  \/ SetBegin
  \/ SetOpen
  \/ SetDump
  \/ Tick

SpecConc == InitConc /\ [][NextConc]_vars

\* _normalize_question as a function: a question and a variant derived from
\* it by edits, or two questions of the docstring, are normalized.
InitNorm ==
  /\ ai_available = TRUE
  /\ engine = MkEngine("auto", AllProbes(TRUE))
  /\ op = NoOp
  /\ procs = [p \in Procs |-> IdleProc]
  /\ last_set = None
  /\ \E q1 \in BaseQuestions \cup DocExamples, s \in {q.season : q \in Queries} :
     \E q2 \in DocExamples \cup {q1} :
       norm = [q1 |-> q1, q2 |-> q2, season |-> s, n1 |-> <<>>, n2 |-> <<>>,
               edits |-> 0, derived |-> (q1 = q2), done |-> FALSE]
  /\ store = EmptyStore
  /\ now = 0
  /\ pc = "idle"
  /\ req = CHOOSE q \in Queries : q.season = 2023
  /\ code = EmptyCode
  /\ result = NoResult
  /\ nreq = 0
  /\ store0 = EmptyStore
  /\ hist = NoHistory

NextNorm ==
  \/ EditCase
  \/ EditSpace
  \/ EditPunctuation
  \/ EditAbbreviation
  \/ Normalize

SpecNorm == InitNorm /\ [][NextNorm]_vars

\* Number of requests an engine of SpecBind is followed through.
MaxBindRequests == 2

\* Engines constructed in every mode and with every probe outcome, each
\* followed through its requests within one day.
InitBind ==
  /\ \E mode \in Modes, probes \in ProbeOutcomes :
       /\ engine = MkEngine(mode, probes)
       /\ ai_available = Bind(mode, probes).ai_available
  /\ op = NoOp
  /\ procs = [p \in Procs |-> IdleProc]
  /\ last_set = None
  /\ norm = NoNorm
  /\ store = EmptyStore
  /\ now = 0
  /\ pc = "idle"
  /\ req = CHOOSE q \in Queries : q.season = 2023
  /\ code = EmptyCode
  /\ result = NoResult
  /\ nreq = 0
  /\ store0 = EmptyStore
  /\ hist = NoHistory

NextBind ==
  \/ Construct
  \/ (StartRequest /\ nreq < MaxBindRequests)
  \/ HandleQueryUnavailable
  \/ CacheLookup
  \/ ExecuteCached
  \/ GenerateCode
  \/ ValidateFirst
  \/ ExecuteFirst
  \/ RetryDecide
  \/ GenerateCodeWithFeedback
  \/ ValidateRetry
  \/ ExecuteRetry

SpecBind == InitBind /\ [][NextBind]_vars

TypeOK ==
  /\ ai_available \in BOOLEAN
  /\ now \in 0..MaxTime
  /\ nreq \in 0..MaxRequests
  /\ hist.gen \in 0..1 /\ hist.fb \in 0..1

\* ---------------------------------------------------------------- claims
\* The cache key of the current call.
CurrentKey == GenerateCacheKey(req.question, req.season)

\* The first-attempt candidate of the current call was rejected by validate.
RejectedFirst ==
  \E v \in hist.verdicts : v.attempt = 1 /\ v.outcome = "unsafe"

\* The retry candidate of the current call was rejected by validate.
RejectedRetry ==
  \E v \in hist.verdicts : v.attempt = 2 /\ v.outcome = "unsafe"

\* The code texts validate rejected in the current call.
RejectedCodes == {v.code : v \in {x \in hist.verdicts : x.outcome = "unsafe"}}

\* The first attempt's candidate passed validation and its run failed.
FirstExecutionFailed == \E e \in hist.execs : e.via = "first" /\ ~e.success

\* The cached code was run and succeeded.
CachedExecutionSucceeded == \E e \in hist.execs : e.via = "cached" /\ e.success

\* The retry candidate was run and succeeded.
RetryExecutionSucceeded == \E e \in hist.execs : e.via = "retry" /\ e.success

\* A step writes a new entry for key k, as set does; the rewrite of a hit
\* changes hits and last_used only.
WritesNewEntry(k) ==
  /\ store'[k] # store[k]
  /\ store'[k].state = "entry"
  /\ ~(/\ store[k].state = "entry"
       /\ store'[k] = [store[k] EXCEPT !.hits = store'[k].hits,
                                       !.last_used = store'[k].last_used])

C2_SafetyRejectionNotRetried ==
  [][/\ RejectedFirst' =>
          /\ hist'.fb = 0
          /\ pc' \in {"retry_decide", "done"}
          /\ ~result'.success
     /\ (RejectedFirst /\ pc = "retry_decide" /\ pc' # pc) => pc' = "done"]_vars

C2_Witness == pc = "done" /\ RejectedFirst /\ ~result.success /\ hist.fb = 0

\* C3: a code text that validate rejected in a call (first attempt or retry)
\* is never passed to code_cache.set by that call, and no entry that the call
\* created or rewrote holds it.
C3_NoCacheOnReject ==
  /\ \A s \in hist.sets : s.code \notin RejectedCodes
  /\ \A k \in CacheKeys :
       (store[k] # store0[k] /\ store[k].state = "entry")
         => store[k].code.text \notin RejectedCodes

C3_Witness ==
  pc = "done" /\ RejectedRetry /\ store[CurrentKey].state = "entry"

C5_RejectedNeverExecuted ==
  /\ \A e \in hist.execs : e.code \notin RejectedCodes
  /\ RejectedFirst =>
       /\ hist.execs = {}
       /\ ~result.success
       /\ Contains(ValidateCodeSafety(code).message, result.error)
       /\ code.matches # {} =>
            Contains(<<DangerousPatterns[Min(code.matches)]>>, result.error)

C5_Witness == pc = "done" /\ RejectedFirst /\ code = OpenFile

\* C6: a call whose first-attempt candidate passed validation and failed in
\* execution has made exactly one generate-with-feedback call when it ends,
\* whatever the error text.
C6_ExecutionFailureRetriedOnce ==
  (pc = "done" /\ FirstExecutionFailed) => hist.fb = 1

\* C7: a generate-with-feedback call is made only after a run of a candidate
\* failed in the same call; a first attempt that ended without any run does
\* not lead to one.
C7_FeedbackOnlyAfterFailedExecution ==
  hist.fb > 0 => \E e \in hist.execs : ~e.success

\* C8 as stated: whenever get returned a live entry, the call makes no
\* generation call of any kind, reports cached = true and leaves the entry's
\* hit count exactly one higher.
C8_CacheHitNoGeneration ==
  hist.got # None =>
    /\ hist.gen = 0 /\ hist.fb = 0 /\ pc # "gen_feedback"
    /\ pc = "done" =>
         /\ result.cached = "true"
         /\ store[CurrentKey].state = "entry"
         /\ store[CurrentKey].hits = store0[CurrentKey].hits + 1

\* C8 amended: whenever get returned a live entry, no plain generation call is
\* made and the get raised the entry's hit count by exactly one; if the run of
\* the cached code succeeds, no generation call of any kind is made, the
\* result reports cached = true and the stored entry is the one get returned.
C8_CacheHitSuccessNoGeneration ==
  hist.got # None =>
    /\ hist.gen = 0
    /\ store0[CurrentKey].state = "entry"
    /\ hist.got = [store0[CurrentKey] EXCEPT !.hits = @ + 1,
                                             !.last_used = hist.got.last_used]
    /\ CachedExecutionSucceeded =>
         /\ hist.fb = 0
         /\ pc \in {"retry_decide", "done"}
         /\ result.success
         /\ result.cached = "true"
         /\ store[CurrentKey] = hist.got

C8_Witness ==
  /\ pc = "done"
  /\ hist.got # None
  /\ result.cached = "true"
  /\ store[CurrentKey].hits = 1

\* C9: when a call ends in success with freshly generated code, the entry of
\* the call's key holds exactly the candidate whose run succeeded (the last
\* one generated), and the result reports cached = false.
C9_SuccessCachesSucceededCandidate ==
  (pc = "done" /\ result.success /\ hist.gen + hist.fb > 0) =>
    /\ result.cached = "false"
    /\ store[CurrentKey].state = "entry"
    /\ store[CurrentKey].code = code
    /\ store[CurrentKey].code.text = result.generated_code
    /\ \E e \in hist.execs :
         e.success /\ e.via # "cached" /\ e.code = store[CurrentKey].code.text

C9_Witness ==
  /\ pc = "done"
  /\ result.success
  /\ \E e \in hist.execs : e.via = "first" /\ ~e.success /\ e.code # code.text
  /\ store[CurrentKey].code = code

\* C10: the flags of the returned result tell what happened: a success has
\* cached = true iff the call made no generation call; it has retry_attempted
\* and retry_succeeded iff the retry candidate's run succeeded, and then
\* exactly one generate-with-feedback call was made; any result has
\* retry_attempted iff a generate-with-feedback call was made.
C10_ProvenanceFlags ==
  pc = "done" =>
    /\ result.success =>
         /\ result.cached \in {"true", "false"}
         /\ (result.cached = "true") <=> (hist.gen + hist.fb = 0)
         /\ (result.retry_attempted /\ result.retry_succeeded)
              <=> RetryExecutionSucceeded
         /\ result.retry_succeeded <=> RetryExecutionSucceeded
         /\ RetryExecutionSucceeded => hist.fb = 1
    /\ result.retry_attempted <=> (hist.fb > 0)

C10_Witness ==
  /\ pc = "done"
  /\ result.success
  /\ result.retry_succeeded
  /\ hist.fb = 1
  /\ \E e \in hist.execs : e.via # "retry" /\ ~e.success

\* The entry of the current call's key was live when the call started.
LiveAtStart ==
  /\ store0[CurrentKey].state = "entry"
  /\ now - store0[CurrentKey].timestamp < TtlDays

C12_CachedAnswerWithoutProvider ==
  (pc = "done" /\ LiveAtStart) =>
    /\ hist.got # None
    /\ \E e \in hist.execs :
         e.via = "cached" /\ e.code = store0[CurrentKey].code.text

\* C13: in auto mode backend k is bound iff its probe succeeded and every
\* earlier probe (order Ollama, Gemini, OpenAI) failed; the engine is
\* unavailable iff all probes failed; in every mode at most one backend is
\* bound; and only a construction changes the binding.
C13_OrderedFallbackBinding ==
  [][/\ engine'.mode = "auto" =>
          /\ \A k \in 1..3 :
               (engine'.provider = Backends[k])
                 <=> (/\ engine'.probes[Backends[k]]
                      /\ \A j \in 1..(k - 1) : ~engine'.probes[Backends[j]])
          /\ ~ai_available' <=> (\A k \in 1..3 : ~engine'.probes[Backends[k]])
     /\ ai_available' <=> (engine'.provider # "none")
     /\ engine'.handles = {engine'.provider} \ {"none"}
     /\ (engine' # engine \/ ai_available' # ai_available) =>
          (pc \in {"idle", "done"} /\ pc' = "idle" /\ hist' = NoHistory)]_vars

C13_Witness ==
  /\ engine.mode = "auto"
  /\ ~engine.probes["ollama"] /\ engine.probes["gemini"] /\ engine.probes["openai"]
  /\ engine.provider = "gemini"
  /\ pc = "done"
  /\ hist.gen = 1

\* C17: remove(key) returns True iff a file for the key existed, leaves no
\* entry for the key and touches no other key; a key without an entry gets one
\* only by the set of a successful run for that key; and a request (on an
\* engine with a bound backend) that starts with no entry for its key misses
\* the cache, makes a generation call and, if it succeeds, reports
\* cached = false.
C17_InvalidationForcesFreshGeneration ==
  [][/\ (op'.name = "remove" /\ pc' = pc /\ (op' # op \/ store' # store)) =>
          /\ op'.ret <=> (store[op'.key].state # "absent")
          /\ store'[op'.key] = Absent
          /\ \A k \in CacheKeys \ {op'.key} : store'[k] = store[k]
     /\ (op'.name = "clear" /\ pc' = pc) => \A k \in CacheKeys : store'[k] = Absent
     /\ \A k \in CacheKeys :
          (store[k].state = "absent" /\ store'[k].state # "absent") =>
             /\ pc \in {"execute", "retry_execute"}
             /\ result'.success
             /\ k = CurrentKey
     /\ (/\ ai_available'
         /\ store0'[GenerateCacheKey(req'.question, req'.season)].state = "absent") =>
          /\ pc' \notin {"idle", "handle_query"} => hist'.got = None
          /\ pc' = "done" =>
               /\ hist'.gen = 1
               /\ result'.success => result'.cached = "false"]_vars

C17_Witness ==
  /\ pc = "done"
  /\ nreq = 2
  /\ op.name = "remove" /\ op.ret
  /\ op.key = CurrentKey
  /\ hist.got = None /\ hist.gen = 1
  /\ result.success /\ result.cached = "false"

\* ------------------------------------------------- the cache used directly
\* The last call was a get that directly followed a set of the same key.
GetAfterSet == op.name = "get" /\ op.prev.name = "set"

\* C14: a get for a key immediately after set(key, code) returns an entry
\* whose code is exactly that code, whether the key had no file, a live entry
\* or an expired entry before the set.
C14_GetAfterSetReturnsCode ==
  GetAfterSet =>
    /\ op.ret # None
    /\ op.ret.code = op.prev.code
    /\ store[op.key].state = "entry"
    /\ store[op.key].code = op.prev.code

\* A get returned the code of the set before it, which replaced an expired
\* entry.
C14_Witness ==
  /\ GetAfterSet
  /\ op.prev.prior = "expired"
  /\ op.ret # None
  /\ op.ret.code = op.prev.code

\* The last call was a get that found an entry of age at least the TTL.
GetOfExpired ==
  /\ op.name = "get"
  /\ op.before.state = "entry"
  /\ op.t - op.before.timestamp >= TtlDays

\* C15: get returns an entry iff the file is present and its age is strictly
\* less than the TTL; a get of an older entry is a miss that removes the file,
\* and an absent file stays absent until a set of that key.
C15_HitIffLive ==
  [][/\ op'.name = "get" =>
          /\ op'.ret # None <=>
                /\ op'.before.state = "entry"
                /\ op'.t - op'.before.timestamp < TtlDays
          /\ GetOfExpired' => store'[op'.key] = Absent
     /\ \A k \in CacheKeys :
          store[k] = Absent /\ store'[k] # Absent =>
            op'.name = "set" /\ op'.key = k]_vars

\* A get of an entry whose age is exactly the TTL missed and removed the file.
C15_Witness ==
  /\ GetOfExpired
  /\ op.t - op.before.timestamp = TtlDays
  /\ op.ret = None
  /\ store[op.key] = Absent

\* C16: a hit changes only the entry that was hit, and of it only hits (up by
\* exactly 1) and last_used (now now); code, question, season and timestamp,
\* and the files of all other keys, stay as they were.
C16_HitChangesOnlyBookkeeping ==
  [][op' # op /\ op'.name = "get" /\ op'.ret # None =>
       /\ op'.before = store[op'.key]
       /\ store'[op'.key] =
            [store[op'.key] EXCEPT !.hits = @ + 1, !.last_used = now]
       /\ op'.ret = store'[op'.key]
       /\ \A k \in CacheKeys \ {op'.key} : store'[k] = store[k]]_vars

\* A day after its creation an entry was hit while another key holds an entry.
C16_Witness ==
  /\ op.name = "get"
  /\ op.ret # None
  /\ op.ret.hits = 1
  /\ op.ret.last_used > op.ret.timestamp
  /\ \E k \in CacheKeys \ {op.key} : store[k].state = "entry"

\* --------------------------------------------------- concurrent get and set
\* No caller is inside a call.
AllReturned == \A p \in Procs : procs[p].pc = "idle"

\* C18: once all concurrent get and set calls on a key have returned, the file
\* of the key is not a truncated one, and an entry it holds has the code of
\* the set that returned last.
C18_LastSetWins ==
  AllReturned /\ last_set # None =>
    /\ store[ConcKey] # Corrupt
    /\ store[ConcKey].state = "entry" => store[ConcKey].code = last_set

\* ------------------------------------------------------------ normalization
\* C19: a question and a variant of it that differs only in letter case, in
\* surrounding whitespace, in the characters ?!.,;: or in table words standing
\* for their expansions have the same normalized string, hence the same cache
\* key, for the same season; normalizing leaves the cache as it is.
C19_VariantsShareKey ==
  [][norm'.done /\ norm'.derived =>
       /\ norm'.n1 = norm'.n2
       /\ GenerateCacheKey(norm'.q1, norm'.season)
            = GenerateCacheKey(norm'.q2, norm'.season)
       /\ store' = store]_vars

\* A variant two edits away from its question, among them a table word put
\* for its expansion or back, was normalized to the string of the question.
C19_Witness ==
  /\ norm.done
  /\ norm.derived
  /\ norm.edits = 2
  /\ Len(norm.q2) # Len(norm.q1)
  /\ \E i \in DOMAIN norm.q2 : norm.q2[i] \in UpperLetters \cup PunctuationChars
  /\ norm.n1 = norm.n2

\* C20: any two of the three questions of the docstring have, for season
\* 2024, the same normalized string.
C20_DocExamplesShareKey ==
  (/\ norm.done
   /\ norm.season = 2024
   /\ norm.q1 \in DocExamples
   /\ norm.q2 \in DocExamples)
    => norm.n1 = norm.n2

\* ---------------------------------------------------------------- validator
\* The indices of the imports of a code text that are not allowed.
BadImports(c) == {i \in DOMAIN c.imports : c.imports[i] \notin AllowedImports}

MalformedRuns == {e \in hist.execs : e.kind \in {"no_result", "not_dict", "no_answer"}}

\* C22: a run that ends without a well-formed result structure yields a
\* result with success false and an error, so it is not a success (and not
\* cached).
C22_MalformedResultFails ==
  \A e \in MalformedRuns : ~e.success /\ e.error # <<>>

\* ------------------------------------------------------------------ failures
\* C23: whatever fails during a request, handle_query_with_retry returns a
\* result; no call ends by raising.
C23_NoFailureEscapes == pc # "raised"

\* --------------------------------------------------------------- termination
\* C24: every call of handle_query_with_retry eventually returns a result,
\* whatever the candidate does.
C24_EveryRequestReturns == (pc = "handle_query") ~> (pc = "done")

\* --------------------------------------------------------------- containment
\* C25: a candidate that reaches for an operation outside the exposed
\* surface is rejected by validate or fails at run time; no run that passed
\* validate obtains filesystem, process, network or reflection authority.
C25_CapabilityContainment ==
  op.name = "sandbox" => Authority(op.reached) \notin ForbiddenAuthority

\* ------------------------------------------------------------------ prompts
\* Does a prompt hold the part `name` with value `value`?
HasPart(prompt, name, value) ==
  \E j \in DOMAIN prompt : prompt[j].part = name /\ prompt[j].value = value

\* The feedback block of a feedback prompt: previous code, previous error,
\* defensive-coding reminders.
HasFeedbackBlock(prompt) ==
  \A name \in {"previous_code", "previous_error", "reminders"} :
     \E j \in DOMAIN prompt : prompt[j].part = name

\* The parts of the original prompt the claim names.
OriginalParts == {"manifest", "examples", "question", "season"}

\* C26: the feedback prompt holds the manifest, the worked examples, the
\* question and the season of the original prompt, and the feedback block.
C26_FeedbackKeepsOriginalPrompt ==
  op.name = "feedback" =>
    /\ HasFeedbackBlock(op.prompt)
    /\ \A i \in DOMAIN op.original :
          op.original[i].part \in OriginalParts =>
            HasPart(op.prompt, op.original[i].part, op.original[i].value)

\* ------------------------------------------------------------------ seasons
\* The seasons asked about.
Seasons == {q.season : q \in Queries}

\* C27: for a question and two different seasons the normalized strings
\* differ; a set for one season leaves the file of the other season as it
\* was, and a get for a season returns only an entry of that season.
C27_SeasonsCachedSeparately ==
  [][\A q \in Queries : \A s2 \in Seasons \ {q.season} :
       LET k1 == GenerateCacheKey(q.question, q.season)
           k2 == GenerateCacheKey(q.question, s2)
       IN  /\ NormalizeQuestion(q.question, q.season) # NormalizeQuestion(q.question, s2)
           /\ op' # op /\ op'.name = "set" /\ op'.key = k1 => store'[k2] = store[k2]
           /\ op' # op /\ op'.name = "get" /\ op'.key = k2 /\ op'.ret # None =>
                op'.ret.season = s2]_vars

\* A get for one season of a question missed while the other season of the
\* same question holds an entry.
C27_Witness ==
  /\ op.name = "get"
  /\ op.before = Absent
  /\ op.ret = None
  /\ \E q \in Queries : \E s2 \in Seasons \ {q.season} :
       /\ op.key = GenerateCacheKey(q.question, s2)
       /\ store[GenerateCacheKey(q.question, q.season)].state = "entry"

\* --------------------------------------------------------- validated code
\* The code texts validate accepted in a call with history h.
AcceptedCodes(h) == {v.code : v \in {x \in h.verdicts : x.outcome = "safe"}}

\* C28: every code text that is run was accepted by validate before: a
\* generated candidate in the same call, and cached code in the call that
\* wrote its entry.  Step by step: a run of generated code follows its safe
\* verdict, a cached run runs the code the cache returned, the cache returns
\* the code of an entry of the store, and a step that puts a code text into
\* the store puts one that the call has validated.
C28_RunCodeWasValidated ==
  [][/\ \A e \in hist'.execs :
          IF e.via = "cached"
            THEN /\ hist'.got # None
                 /\ hist'.got.code.text = e.code
            ELSE e.code \in AcceptedCodes(hist')
     /\ hist'.got # None /\ hist.got = None =>
          \E k \in CacheKeys : /\ store[k].state = "entry"
                               /\ store[k].code = hist'.got.code
     /\ \A k \in CacheKeys :
          /\ store'[k].state = "entry"
          /\ store[k].state = "entry" => store'[k].code # store[k].code
          => store'[k].code.text \in AcceptedCodes(hist')]_vars

\* A second call ran the code that the first call validated and cached.
C28_Witness ==
  /\ nreq = 2
  /\ \E e \in hist.execs :
       /\ e.via = "cached"
       /\ store0[CurrentKey].state = "entry"
       /\ store0[CurrentKey].code.text = e.code
  /\ hist.verdicts = {}

\* ------------------------------------------------- concurrent get and remove
\* A remove (or clear) call deleted the file of the key.
Invalidated == \E p \in Procs : procs[p].removed > 0

\* C29: once a remove of the key and the get calls running with it have all
\* returned, and no set was called, the key has no file: a get that read the
\* entry before the removal does not bring it back.
C29_RemovalIsFinal ==
  AllReturned /\ Invalidated => store[ConcKey] = Absent

\* The number of get calls that returned the entry since the set that
\* created it.
RECURSIVE HitsReturned(_)
HitsReturned(P) ==
  IF P = {} THEN 0
  ELSE LET p == CHOOSE x \in P : TRUE
       IN  procs[p].hit + HitsReturned(P \ {p})

\* C30: the hits field of the entry equals the number of get calls that
\* returned the entry since the set that created it.
C30_HitCountCountsHits ==
  store[ConcKey].state = "entry" /\ ~Invalidated =>
    store[ConcKey].hits = HitsReturned(Procs)

====
